---- MODULE Spec2Model ----
\* A model of todo-mcp-server: the projects, milestones and todos tables of
\* db/init.ts with their foreign keys and CHECK constraints, and the operations
\* of ProjectService and TodoService over them. Foreign keys are enforced, as
\* getDb and createTestDb set PRAGMA foreign_keys = ON.
EXTENDS Integers, Sequences, FiniteSets, TLC

\* ------------------------------------------------------------------ bounds
\* number of rows ever inserted into each table (AUTOINCREMENT never reuses an id)
MaxProjects == 1
MaxMilestones == 1
MaxTodos == 2
\* todos ever created when update takes the fields of todo_modify only
MaxToolTodos == 3
\* rows ever inserted into todos in the reparenting specification
MaxTreeTodos == 3
\* longest createMany batch
\* todos ever created in the one-task scenario: the task and its subtasks
MaxScenarioTodos == 3
\* longest createMany batch
MaxBatch == 2
\* largest todo count of the progress specification
MaxProgressTodos == 40
MaxLogTodos == 2
MaxLog == 3
MaxCallers == 2
MaxLargeTodos == 201
LargeSpread == 5
LargePending == 20

\* ------------------------------------------------------------------ values
\* SQL NULL / a field absent from the input
NULL == 0

ProjectStatus == {"active", "completed", "on_hold", "archived"}
MilestoneStatus == {"pending", "reached"}
TodoStatus == {"pending", "completed"}
TodoLevel == {"task", "subtask"}

VARIABLES
  projects,    \* projects table: id -> [status]
  milestones,  \* milestones table: id -> [project_id, status]
  todos,       \* todos table: id -> [status, priority, project_id, parent_id, milestone_id, level]
  seq,         \* sqlite_sequence: the last AUTOINCREMENT id of each table
  tool_actions, \* tool_actions table, in id order:
               \* [action_type, todo_id, payload, success, error_message]
  result,      \* the last call, and what it returned or threw: [op, code, value]
  calls,       \* the service calls under way, statement by statement, of each caller
  peer,        \* a second server process on the same file: its in-memory database
  file         \* the database file, as the last _save wrote it

\* what lies outside the one process and its synchronous calls
processVars == <<calls, peer, file>>

vars == <<projects, milestones, todos, seq, tool_actions, result, calls, peer, file>>

Res(op, code, value) == [op |-> op, code |-> code, value |-> value]

Max(a, b) == IF a >= b THEN a ELSE b

\* ------------------------------------------------- Math.round((c / t) * 100)
\* JavaScript numbers are IEEE 754 binary64: the division and the
\* multiplication each round to the nearest double, ties to even.
MantissaBits == 53
\* the arithmetic is carried out exactly on integers held as limbs of LimbBits
\* bits; a quotient is developed to FractionLimbs limbs before it is rounded
LimbBits == 15
FractionLimbs == 5

RECURSIVE Pow2(_)
Pow2(n) == IF n = 0 THEN 1 ELSE 2 * Pow2(n - 1)

Limb == Pow2(LimbBits)

\* An unsigned big integer is a sequence of limbs in 0..Limb-1, least significant first.
LimbAt(a, j) == IF j >= 1 /\ j <= Len(a) THEN a[j] ELSE 0

BitOf(a, i) == (LimbAt(a, (i \div LimbBits) + 1) \div Pow2(i % LimbBits)) % 2

BitLength(a) ==
  LET set == {i \in 0..(LimbBits * Len(a) - 1) : BitOf(a, i) = 1}
  IN IF set = {} THEN 0 ELSE 1 + CHOOSE i \in set : \A k \in set : k <= i

ShiftRight(a, n) ==
  LET q == n \div LimbBits
      r == n % LimbBits
  IN [j \in 1..Len(a) |->
        (LimbAt(a, j + q) \div Pow2(r)) + (LimbAt(a, j + q + 1) % Pow2(r)) * Pow2(LimbBits - r)]

RECURSIVE MulAddSmall(_, _, _, _)
\* a * k + carry, from limb j on
MulAddSmall(a, k, carry, j) ==
  IF j > Len(a)
  THEN IF carry = 0 THEN <<>> ELSE <<carry>>
  ELSE LET v == a[j] * k + carry
       IN <<v % Limb>> \o MulAddSmall(a, k, v \div Limb, j + 1)

\* A double is [m, e]: the value m * 2^e, where m is a big integer of exactly
\* MantissaBits bits; zero is [m |-> <<>>, e |-> 0].  RoundToDouble rounds the
\* value (a + s) * 2^e, 0 <= s < 1 with s > 0 iff sticky, to the nearest double,
\* ties to even.
RoundToDouble(a, e, sticky) ==
  LET drop == BitLength(a) - MantissaBits
      kept == ShiftRight(a, drop)
      half == BitOf(a, drop - 1)
      low == sticky \/ \E i \in 0..(drop - 2) : BitOf(a, i) = 1
      up == half = 1 /\ (low \/ BitOf(kept, 0) = 1)
      r == IF up THEN MulAddSmall(kept, 1, 1, 1) ELSE kept
  IN IF BitLength(r) > MantissaBits
     THEN [m |-> ShiftRight(r, 1), e |-> e + drop + 1]
     ELSE [m |-> r, e |-> e + drop]

RECURSIVE FractionDigits(_, _, _)
\* the next n limbs of r / d (most significant first), then the final remainder
FractionDigits(r, d, n) ==
  IF n = 0 THEN <<r>>
  ELSE <<(r * Limb) \div d>> \o FractionDigits((r * Limb) % d, d, n - 1)

Reverse(s) == [i \in 1..Len(s) |-> s[Len(s) + 1 - i]]

\* the double completedCount / totalCount, for 0 <= c <= t and 0 < t < Limb
DoubleDiv(c, t) ==
  IF c = 0 THEN [m |-> <<>>, e |-> 0]
  ELSE LET ds == <<c \div t>> \o FractionDigits(c % t, t, FractionLimbs)
           x == Reverse(SubSeq(ds, 1, FractionLimbs + 1))
       IN RoundToDouble(x, 0 - LimbBits * FractionLimbs, ds[FractionLimbs + 2] # 0)

\* the double x * k, for a small positive integer k
DoubleTimes(x, k) ==
  IF x.m = <<>> THEN x ELSE RoundToDouble(MulAddSmall(x.m, k, 0, 1), x.e, FALSE)

\* Math.round of a double 0 <= x < Limb: the nearest integer, a tie going up
MathRound(x) ==
  IF x.m = <<>> THEN 0
  ELSE LimbAt(ShiftRight(x.m, 0 - x.e), 1) + BitOf(x.m, 0 - x.e - 1)

\* a faulty variant: Math.floor in place of Math.round
flooredPercent(completedCount, totalCount) == (completedCount * 100) \div totalCount

\* Math.round((completedCount / totalCount) * 100)
roundedPercent(completedCount, totalCount) ==
  MathRound(DoubleTimes(DoubleDiv(completedCount, totalCount), 100))

\* roundedPercent tabulated once for the pairs of counts up to MaxCount
MaxCount == Max(Max(Max(MaxTodos, MaxToolTodos), MaxTreeTodos), MaxProgressTodos)
percentTable == [t \in 1..MaxCount |-> [c \in 0..t |-> roundedPercent(c, t)]]

\* progress_percent: totalCount > 0 ? Math.round((completedCount / totalCount) * 100) : 0
progressPercent(completedCount, totalCount) ==
  IF totalCount = 0 THEN 0
  ELSE IF totalCount <= MaxCount THEN percentTable[totalCount][completedCount]
  ELSE roundedPercent(completedCount, totalCount)

\* ------------------------------------------------------------ the store
\* a table with row `row` inserted under key `id`
Insert(table, id, row) == (id :> row) @@ table

\* a table restricted to the keys in `keep`
Restrict(table, keep) == [id \in keep |-> table[id]]

\* a faulty variant: foreign keys off, the CHECK constraints alone
todoRowOkChecksOnly(tds, row) ==
  /\ row.status \in TodoStatus
  /\ row.priority \in 1..5
  /\ row.level \in TodoLevel

\* CHECK (status IN ('pending', 'completed')), CHECK (priority BETWEEN 1 AND 5),
\* CHECK (level IN ('task', 'subtask')) and the three REFERENCES of todos
todoRowOk(tds, row) ==
  /\ row.status \in TodoStatus
  /\ row.priority \in 1..5
  /\ row.level \in TodoLevel
  /\ row.project_id # NULL => row.project_id \in DOMAIN projects
  /\ row.parent_id # NULL => row.parent_id \in DOMAIN tds
  /\ row.milestone_id # NULL => row.milestone_id \in DOMAIN milestones

\* CHECK (status IN ('active', 'completed', 'on_hold', 'archived'))
projectRowOk(row) == row.status \in ProjectStatus

\* a faulty variant: a patch of parent_id also rewrites level
applyFieldsAndLevel(row, data) ==
  LET patched == [f \in DOMAIN row |-> IF f \in DOMAIN data THEN data[f] ELSE row[f]]
  IN IF "parent_id" \in DOMAIN data
     THEN [patched EXCEPT !.level = IF data.parent_id # NULL THEN "subtask" ELSE "task"]
     ELSE patched

\* a row with the fields of `data` written over it (UPDATE ... SET key = ?, ...)
applyFields(row, data) ==
  [k \in DOMAIN row |-> IF k \in DOMAIN data THEN data[k] ELSE row[k]]

\* todos.parent_id ON DELETE CASCADE: the rows deleted when `ids` are deleted
RECURSIVE cascadeTodos(_, _)
cascadeTodos(tds, ids) ==
  LET more == ids \cup {t \in DOMAIN tds : tds[t].parent_id \in ids}
  IN IF more = ids THEN ids ELSE cascadeTodos(tds, more)

\* todos.project_id and todos.milestone_id ON DELETE SET NULL, for deleted
\* projects ps and deleted milestones ms
setNullTodos(tds, ps, ms) ==
  [t \in DOMAIN tds |->
     [tds[t] EXCEPT !.project_id = IF @ \in ps THEN NULL ELSE @,
                    !.milestone_id = IF @ \in ms THEN NULL ELSE @]]

\* milestones.project_id ON DELETE CASCADE: the milestones deleted with project id
cascadeMilestones(mls, id) == {m \in DOMAIN mls : mls[m].project_id = id}

\* ------------------------------------------------------------ progress
\* a faulty variant: subtasks are left out of the count
countTopLevel(tds, field, id) ==
  Cardinality({t \in DOMAIN tds : tds[t][field] = id /\ tds[t].parent_id = NULL})

countTodos(tds, field, id) == Cardinality({t \in DOMAIN tds : tds[t][field] = id})

countCompleted(tds, field, id) ==
  Cardinality({t \in DOMAIN tds : tds[t][field] = id /\ tds[t].status = "completed"})

\* ProjectService.attachProgress
attachProgress(tds, id, project) ==
  LET totalCount == countTodos(tds, "project_id", id)
      completedCount == countCompleted(tds, "project_id", id)
  IN [id |-> id, status |-> project.status,
      total_tasks |-> totalCount,
      completed_tasks |-> completedCount,
      progress_percent |-> progressPercent(completedCount, totalCount)]

\* ProjectService.attachMilestoneProgress
attachMilestoneProgress(tds, id, milestone) ==
  LET totalCount == countTodos(tds, "milestone_id", id)
      completedCount == countCompleted(tds, "milestone_id", id)
  IN [id |-> id, project_id |-> milestone.project_id, status |-> milestone.status,
      total_tasks |-> totalCount,
      completed_tasks |-> completedCount,
      progress_percent |-> progressPercent(completedCount, totalCount)]

\* a row as the services return it: SELECT * includes the id column
withId(id, row) == ("id" :> id) @@ row

\* An outcome is what a service call does to the store and what it returns:
\* code "OK" and the returned value, or the code of the error thrown.
\* "SQLITE_CONSTRAINT" stands for the plain Error of a failed CHECK or foreign key.
TodoOutcome(code, tds, n, value) == [code |-> code, todos |-> tds, seq |-> n, value |-> value]

\* ServiceError.statusCode of the error codes the services throw; 0 stands for
\* no ServiceError (a success, or the plain Error of a failed constraint)
statusCode(code) ==
  IF code \in {"PROJECT_NOT_FOUND", "MILESTONE_NOT_FOUND", "TODO_NOT_FOUND"} THEN 404
  ELSE IF code = "MAX_DEPTH_EXCEEDED" THEN 400
  ELSE 0

\* ------------------------------------------------------------ TodoService
\* a faulty variant: every new row takes the column default 'task'
levelAlwaysTask(parent_id) == "task"

\* const level = parent_id ? 'subtask' : 'task'
levelOf(parent_id) == IF parent_id # NULL THEN "subtask" ELSE "task"

\* a faulty variant: the caller's project_id is kept for a subtask
resolvedProjectIdFromInput(tds, data) == data.project_id

\* resolvedProjectId: the parent's project_id when there is a parent
resolvedProjectId(tds, data) ==
  IF data.parent_id # NULL THEN tds[data.parent_id].project_id ELSE data.project_id

\* a faulty variant: no depth check
parentNeverTooDeep(parent) == FALSE

\* the depth check of create: a subtask cannot be a parent
parentTooDeep(parent) == parent.level = "subtask"

\* a faulty variant: no default for priority, the column gets what was given
newTodoRowPriorityAsGiven(tds, data) ==
  [status |-> "pending",
   priority |-> data.priority,
   project_id |-> resolvedProjectId(tds, data),
   parent_id |-> data.parent_id,
   milestone_id |-> data.milestone_id,
   level |-> levelOf(data.parent_id)]

\* the row create inserts; status takes the column default
newTodoRow(tds, data) ==
  [status |-> "pending",
   priority |-> IF data.priority = NULL THEN 3 ELSE data.priority,
   project_id |-> resolvedProjectId(tds, data),
   parent_id |-> data.parent_id,
   milestone_id |-> data.milestone_id,
   level |-> levelOf(data.parent_id)]

\* TodoService.create on the todos table tds whose last id is n
createOutcome(tds, n, data) ==
  IF data.parent_id # NULL /\ data.parent_id \notin DOMAIN tds
  THEN TodoOutcome("TODO_NOT_FOUND", tds, n, NULL)
  ELSE IF data.parent_id # NULL /\ parentTooDeep(tds[data.parent_id])
  THEN TodoOutcome("MAX_DEPTH_EXCEEDED", tds, n, NULL)
  ELSE LET row == newTodoRow(tds, data)
       IN IF ~todoRowOk(tds, row)
          THEN TodoOutcome("SQLITE_CONSTRAINT", tds, n, NULL)
          ELSE TodoOutcome("OK", Insert(tds, n + 1, row), n + 1, withId(n + 1, row))

\* a faulty variant: the batch is one transaction, rolled back when an item fails
RECURSIVE createManyAtomic(_, _, _, _)
createManyAtomic(tds, n, items, i) ==
  IF i > Len(items) THEN TodoOutcome("OK", tds, n, <<>>)
  ELSE CHOOSE all \in
         {IF one.code # "OK" THEN TodoOutcome(one.code, tds, n, NULL)
          ELSE CHOOSE rest \in
                 {IF more.code # "OK" THEN TodoOutcome(more.code, tds, n, NULL)
                  ELSE [more EXCEPT !.value = <<one.value>> \o @] :
                    more \in {createManyAtomic(one.todos, one.seq, items, i + 1)}} : TRUE :
            one \in {createOutcome(tds, n, items[i])}} : TRUE

\* TodoService.createMany: items.map((item) => this.create(item)), from item i on;
\* the value is the list of created rows, and a throw keeps what was inserted.
\* one is the outcome of create on item i, more that of the items after it.
RECURSIVE createManyOutcome(_, _, _, _)
createManyOutcome(tds, n, items, i) ==
  IF i > Len(items) THEN TodoOutcome("OK", tds, n, <<>>)
  ELSE CHOOSE all \in
         {IF one.code # "OK" THEN TodoOutcome(one.code, tds, n, NULL)
          ELSE CHOOSE rest \in
                 {IF more.code # "OK" THEN more
                  ELSE [more EXCEPT !.value = <<one.value>> \o @] :
                    more \in {createManyOutcome(one.todos, one.seq, items, i + 1)}} : TRUE :
            one \in {createOutcome(tds, n, items[i])}} : TRUE

\* a faulty variant: update runs the depth check of create on a new parent_id
updateOutcomeDepthChecked(tds, n, id, data) ==
  IF id \notin DOMAIN tds THEN TodoOutcome("TODO_NOT_FOUND", tds, n, NULL)
  ELSE IF /\ "parent_id" \in DOMAIN data
          /\ data.parent_id \in DOMAIN tds
          /\ parentTooDeep(tds[data.parent_id])
  THEN TodoOutcome("MAX_DEPTH_EXCEEDED", tds, n, NULL)
  ELSE LET row == applyFields(tds[id], data)
       IN IF ~todoRowOk(tds, row)
          THEN TodoOutcome("SQLITE_CONSTRAINT", tds, n, NULL)
          ELSE TodoOutcome("OK", [tds EXCEPT ![id] = row], n, withId(id, row))

\* TodoService.update
updateOutcome(tds, n, id, data) ==
  IF id \notin DOMAIN tds THEN TodoOutcome("TODO_NOT_FOUND", tds, n, NULL)
  ELSE LET row == applyFields(tds[id], data)
       IN IF ~todoRowOk(tds, row)
          THEN TodoOutcome("SQLITE_CONSTRAINT", tds, n, NULL)
          ELSE TodoOutcome("OK", [tds EXCEPT ![id] = row], n, withId(id, row))

\* a faulty variant: no existence check, the DELETE of no row is a success
deleteOutcomeUnverified(tds, n, id) ==
  TodoOutcome("OK", Restrict(tds, DOMAIN tds \ cascadeTodos(tds, {id})), n,
              [success |-> TRUE, id |-> id])

\* TodoService.delete
deleteOutcome(tds, n, id) ==
  IF id \notin DOMAIN tds THEN TodoOutcome("TODO_NOT_FOUND", tds, n, NULL)
  ELSE TodoOutcome("OK", Restrict(tds, DOMAIN tds \ cascadeTodos(tds, {id})), n,
                   [success |-> TRUE, id |-> id])

\* a faulty variant: a missing row is returned as a null success
getTodoByIdOrNull(tds, id) ==
  IF id \notin DOMAIN tds THEN [code |-> "OK", value |-> NULL]
  ELSE [code |-> "OK", value |-> withId(id, tds[id])]

\* TodoService.getById
getTodoById(tds, id) ==
  IF id \notin DOMAIN tds THEN [code |-> "TODO_NOT_FOUND", value |-> NULL]
  ELSE [code |-> "OK", value |-> withId(id, tds[id])]

\* a faulty variant: a null parent_id is bound to "parent_id = ?" like a
\* number, and equals no row's
getAllParentEquals(tds, options) ==
  LET rows == {t \in DOMAIN tds :
                 /\ "status" \in DOMAIN options => tds[t].status = options.status
                 /\ "project_id" \in DOMAIN options
                      => options.project_id # NULL /\ tds[t].project_id = options.project_id
                 /\ "parent_id" \in DOMAIN options
                      => options.parent_id # NULL /\ tds[t].parent_id = options.parent_id
                 /\ "level" \in DOMAIN options => tds[t].level = options.level}
  IN [todos |-> rows, totalCount |-> Cardinality(rows)]

\* TodoService.getAll: WHERE 1=1 with one AND clause for each filter given:
\* status = ?, project_id = ? (which no row equals when the value is null),
\* parent_id IS NULL or parent_id = ?, level = ?
getAll(tds, options) ==
  LET rows == {t \in DOMAIN tds :
                 /\ "status" \in DOMAIN options => tds[t].status = options.status
                 /\ "project_id" \in DOMAIN options
                      => options.project_id # NULL /\ tds[t].project_id = options.project_id
                 /\ "parent_id" \in DOMAIN options
                      => IF options.parent_id = NULL THEN tds[t].parent_id = NULL
                         ELSE tds[t].parent_id = options.parent_id
                 /\ "level" \in DOMAIN options => tds[t].level = options.level}
  IN [todos |-> rows, totalCount |-> Cardinality(rows)]

\* a faulty variant: the listing does not look at parent_id
getStandaloneAnyParent(tds, options) ==
  {t \in DOMAIN tds :
     /\ tds[t].project_id = NULL
     /\ "status" \in DOMAIN options => tds[t].status = options.status}

\* TodoService.getStandalone
getStandalone(tds, options) ==
  {t \in DOMAIN tds :
     /\ tds[t].project_id = NULL
     /\ tds[t].parent_id = NULL
     /\ "status" \in DOMAIN options => tds[t].status = options.status}

\* TodoService.getProjectTree: the top-level tasks of the project, each with
\* the rows whose parent it is
getProjectTree(tds, projectId) ==
  [t \in {u \in DOMAIN tds : tds[u].project_id = projectId /\ tds[u].parent_id = NULL} |->
     {c \in DOMAIN tds : tds[c].parent_id = t}]

\* ------------------------------------------------------------ ProjectService
\* ProjectService.getById
getProjectById(pjs, tds, id) ==
  IF id \notin DOMAIN pjs THEN [code |-> "PROJECT_NOT_FOUND", value |-> NULL]
  ELSE [code |-> "OK", value |-> attachProgress(tds, id, pjs[id])]

\* ProjectService.getAll: the projects, filtered by status when one is given,
\* each with its progress
getAllProjects(pjs, tds, options) ==
  [id \in {p \in DOMAIN pjs : "status" \in DOMAIN options => pjs[p].status = options.status} |->
     attachProgress(tds, id, pjs[id])]

\* ProjectService.update: getById, then UPDATE projects SET ... WHERE id = ?,
\* then getById again
updateProjectOutcome(pjs, tds, id, data) ==
  IF id \notin DOMAIN pjs
  THEN [code |-> "PROJECT_NOT_FOUND", projects |-> pjs, value |-> NULL]
  ELSE LET row == applyFields(pjs[id], data)
           next == [pjs EXCEPT ![id] = row]
       IN IF ~projectRowOk(row)
          THEN [code |-> "SQLITE_CONSTRAINT", projects |-> pjs, value |-> NULL]
          ELSE [code |-> "OK", projects |-> next, value |-> getProjectById(next, tds, id).value]

\* ProjectService.getMilestoneById
getMilestoneById(mls, tds, id) ==
  IF id \notin DOMAIN mls THEN [code |-> "MILESTONE_NOT_FOUND", value |-> NULL]
  ELSE [code |-> "OK", value |-> attachMilestoneProgress(tds, id, mls[id])]

\* ProjectService.getMilestones: the milestones of the project, each with its progress
getMilestones(pjs, mls, tds, projectId) ==
  IF projectId \notin DOMAIN pjs THEN [code |-> "PROJECT_NOT_FOUND", value |-> NULL]
  ELSE [code |-> "OK",
        value |-> [m \in {x \in DOMAIN mls : mls[x].project_id = projectId} |->
                     attachMilestoneProgress(tds, m, mls[m])]]

\* a faulty variant: todos.project_id declared ON DELETE CASCADE
deleteProjectRowsCascading(pjs, mls, tds, id) ==
  LET gone == cascadeMilestones(mls, id)
      kept == {t \in DOMAIN tds : tds[t].project_id # id}
  IN [projects |-> Restrict(pjs, DOMAIN pjs \ {id}),
      milestones |-> Restrict(mls, DOMAIN mls \ gone),
      todos |-> setNullTodos(Restrict(tds, kept), {id}, gone)]

\* the store after DELETE FROM projects WHERE id = ? with its foreign key actions
deleteProjectRows(pjs, mls, tds, id) ==
  LET gone == cascadeMilestones(mls, id)
  IN [projects |-> Restrict(pjs, DOMAIN pjs \ {id}),
      milestones |-> Restrict(mls, DOMAIN mls \ gone),
      todos |-> setNullTodos(tds, {id}, gone)]

\* a faulty variant: foreign keys off, the todos keep the deleted milestone's id
deleteMilestoneRowsNoAction(mls, tds, id) ==
  [milestones |-> Restrict(mls, DOMAIN mls \ {id}), todos |-> tds]

\* the store after DELETE FROM milestones WHERE id = ? with its foreign key action
deleteMilestoneRows(mls, tds, id) ==
  [milestones |-> Restrict(mls, DOMAIN mls \ {id}),
   todos |-> setNullTodos(tds, {}, {id})]

\* a faulty variant: a milestone is born reached
newMilestoneRowReached(project_id) == [project_id |-> project_id, status |-> "reached"]

\* the row createMilestone inserts; status takes the column default
newMilestoneRow(project_id) == [project_id |-> project_id, status |-> "pending"]

\* a faulty variant: the call toggles the status
completeMilestoneToggle(mls, id, undo) ==
  [mls EXCEPT ![id].status = IF @ = "reached" THEN "pending" ELSE "reached"]

\* the milestones after UPDATE milestones SET status = ? WHERE id = ?
completeMilestoneRows(mls, id, undo) ==
  [mls EXCEPT ![id].status = IF undo THEN "pending" ELSE "reached"]

\* ------------------------------------------------------------ inputs
ProjectIds == 1..MaxProjects
MilestoneIds == 1..MaxMilestones
TodoIds == 1..MaxTodos
ToolTodoIds == 1..MaxToolTodos
TreeIds == 1..MaxTreeTodos

\* TodoCreateInput; NULL is an absent field, priority 6 is out of range
CreateInputsOver(ids) ==
  [project_id : {NULL} \cup ProjectIds,
   parent_id : {NULL} \cup ids,
   milestone_id : {NULL} \cup MilestoneIds,
   priority : {NULL}]
    \cup [project_id : {NULL}, parent_id : {NULL} \cup ids, milestone_id : {NULL},
          priority : {6}]

TodoCreateInputs == CreateInputsOver(TodoIds)

ToolCreateInputs == CreateInputsOver(ToolTodoIds)

\* the items of a createMany batch
BatchItemsOver(ids) ==
  [project_id : {NULL}, parent_id : {NULL} \cup ids, milestone_id : {NULL}, priority : {NULL}]

BatchesOver(ids) == UNION {[1..n -> BatchItemsOver(ids)] : n \in 1..MaxBatch}

Batches == BatchesOver(TodoIds)

\* todo_breakdown: the batch createMany gets from the tool, every item under
\* the one parent_id
ToolBatches ==
  {[k \in 1..n |-> item] :
     n \in 1..MaxBatch,
     item \in {b \in BatchItemsOver(ToolTodoIds) : b.parent_id # NULL}}

\* the fields todo_modify passes to update (title, description and due_date
\* are not modelled)
ToolUpdateInputs ==
  {<<>>}
    \cup {("priority" :> p) : p \in {3, 6}}
    \cup {("milestone_id" :> m) : m \in {NULL} \cup MilestoneIds}

\* TodoUpdateInput: one supplied field, or none
TodoUpdateInputs ==
  ToolUpdateInputs
    \cup {("status" :> st) : st \in TodoStatus}
    \cup {("project_id" :> q) : q \in {NULL} \cup ProjectIds}
    \cup {("parent_id" :> q) : q \in {NULL} \cup TodoIds}

\* the options of getAll: each filter given or left out; parent_id may be null
GetAllOptions ==
  {a @@ b @@ c @@ d :
     a \in {<<>>} \cup {("status" :> st) : st \in TodoStatus},
     b \in {<<>>} \cup {("project_id" :> q) : q \in ProjectIds},
     c \in {<<>>} \cup {("parent_id" :> q) : q \in {NULL} \cup TodoIds},
     d \in {<<>>} \cup {("level" :> lv) : lv \in TodoLevel}}

\* the options of getStandalone: a status filter, or none
StandaloneOptions == {<<>>} \cup {("status" :> st) : st \in TodoStatus}

\* ProjectUpdateInput (name and description are not modelled); "deleted" is
\* no ProjectStatus
ProjectUpdateInputs == {<<>>} \cup {("status" :> st) : st \in {"active", "completed", "deleted"}}

\* the inputs of the reparenting specification: parent_id alone
TreeCreateInputs ==
  [project_id : {NULL}, parent_id : {NULL} \cup TreeIds, milestone_id : {NULL}, priority : {NULL}]

TreeUpdateInputs == {("parent_id" :> q) : q \in {NULL} \cup TreeIds}

\* ------------------------------------------------------------ actions
Callers == 1..MaxCallers

\* a caller with no call under way
Idle == [op |-> "none", pc |-> "idle", at |-> "", id |-> NULL, data |-> <<>>,
         changes |-> 0, code |-> ""]

\* the database initTables leaves: the four tables, empty
EmptyDb ==
  [projects |-> <<>>, milestones |-> <<>>, todos |-> <<>>,
   seq |-> [projects |-> 0, milestones |-> 0, todos |-> 0], tool_actions |-> <<>>]

\* no call under way, no second process, and the file as getDb creates it
ProcessInit ==
  /\ calls = [c \in Callers |-> Idle]
  /\ peer = [open |-> FALSE, db |-> EmptyDb]
  /\ file = EmptyDb

Init ==
  /\ projects = <<>>
  /\ milestones = <<>>
  /\ todos = <<>>
  /\ seq = [projects |-> 0, milestones |-> 0, todos |-> 0]
  /\ tool_actions = <<>>
  /\ result = Res("init", "OK", NULL)
  /\ ProcessInit

\* what TodoService calls with outcome o do to the store
TodoEffect(op, o) ==
  /\ todos' = o.todos
  /\ seq' = [seq EXCEPT !.todos = o.seq]
  /\ result' = Res(op, o.code, o.value)
  /\ UNCHANGED <<projects, milestones>>

\* a TodoService call with outcome o, made without the tool layer: no
\* logAction follows it
TodoStep(op, o) ==
  /\ TodoEffect(op, o)
  /\ UNCHANGED <<tool_actions, processVars>>

\* a call that changes nothing in the store: a read, or a call that throws
\* before its first write
ReadStep(op, r) ==
  /\ result' = Res(op, r.code, r.value)
  /\ UNCHANGED <<projects, milestones, todos, seq, tool_actions, processVars>>

create(data) == \E o \in {createOutcome(todos, seq.todos, data)} : TodoStep("create", o)

createMany(items) ==
  \E o \in {createManyOutcome(todos, seq.todos, items, 1)} : TodoStep("createMany", o)

update(id, data) == \E o \in {updateOutcome(todos, seq.todos, id, data)} : TodoStep("update", o)

\* TodoService.updateStatus: return this.update(id, { status })
updateStatus(id, status) ==
  \E o \in {updateOutcome(todos, seq.todos, id, "status" :> status)} : TodoStep("updateStatus", o)

delete(id) == \E o \in {deleteOutcome(todos, seq.todos, id)} : TodoStep("delete", o)

getById(id) == \E r \in {getTodoById(todos, id)} : ReadStep("getById", r)

listTodos(options) ==
  \E r \in {getAll(todos, options)} : ReadStep("getAll", [code |-> "OK", value |-> r])

listProjectTree(projectId) ==
  \E r \in {getProjectTree(todos, projectId)} :
    ReadStep("getProjectTree", [code |-> "OK", value |-> r])

\* ProjectService.create
createProject ==
  /\ seq.projects < MaxProjects
  /\ LET id == seq.projects + 1
         pjs == Insert(projects, id, [status |-> "active"])
     IN /\ projects' = pjs
        /\ seq' = [seq EXCEPT !.projects = id]
        /\ result' = Res("createProject", "OK", getProjectById(pjs, todos, id).value)
  /\ UNCHANGED <<milestones, todos, tool_actions, processVars>>

\* ProjectService.update
updateProject(id, data) ==
  \E o \in {updateProjectOutcome(projects, todos, id, data)} :
    /\ projects' = o.projects
    /\ result' = Res("updateProject", o.code, o.value)
    /\ UNCHANGED <<milestones, todos, seq, tool_actions, processVars>>

\* ProjectService.delete
deleteProject(id) ==
  IF id \notin DOMAIN projects
  THEN ReadStep("deleteProject", getProjectById(projects, todos, id))
  ELSE LET after == deleteProjectRows(projects, milestones, todos, id)
       IN /\ projects' = after.projects
          /\ milestones' = after.milestones
          /\ todos' = after.todos
          /\ result' = Res("deleteProject", "OK", [success |-> TRUE, id |-> id])
          /\ UNCHANGED <<seq, tool_actions, processVars>>

getProject(id) == ReadStep("getProject", getProjectById(projects, todos, id))

\* ProjectService.createMilestone
createMilestone(project_id) ==
  IF project_id \notin DOMAIN projects
  THEN ReadStep("createMilestone", getProjectById(projects, todos, project_id))
  ELSE /\ seq.milestones < MaxMilestones
       /\ LET id == seq.milestones + 1
              mls == Insert(milestones, id, newMilestoneRow(project_id))
          IN /\ milestones' = mls
             /\ seq' = [seq EXCEPT !.milestones = id]
             /\ result' = Res("createMilestone", "OK", getMilestoneById(mls, todos, id).value)
       /\ UNCHANGED <<projects, todos, tool_actions, processVars>>

\* ProjectService.completeMilestone
completeMilestone(id, undo) ==
  IF id \notin DOMAIN milestones
  THEN ReadStep("completeMilestone", getMilestoneById(milestones, todos, id))
  ELSE LET mls == completeMilestoneRows(milestones, id, undo)
       IN /\ milestones' = mls
          /\ result' = Res("completeMilestone", "OK", getMilestoneById(mls, todos, id).value)
          /\ UNCHANGED <<projects, todos, seq, tool_actions, processVars>>

\* ProjectService.deleteMilestone
deleteMilestone(id) ==
  IF id \notin DOMAIN milestones
  THEN ReadStep("deleteMilestone", getMilestoneById(milestones, todos, id))
  ELSE LET after == deleteMilestoneRows(milestones, todos, id)
       IN /\ milestones' = after.milestones
          /\ todos' = after.todos
          /\ result' = Res("deleteMilestone", "OK", [success |-> TRUE, id |-> id])
          /\ UNCHANGED <<projects, seq, tool_actions, processVars>>

getMilestone(id) == ReadStep("getMilestoneById", getMilestoneById(milestones, todos, id))

listMilestones(projectId) ==
  ReadStep("getMilestones", getMilestones(projects, milestones, todos, projectId))

\* ------------------------------------------------------------ MCP tools
\* a faulty variant: the new record takes the place of the last one
logActionOverLast(log, action) ==
  LET record == [action_type |-> action.actionType, todo_id |-> action.todoId,
                 payload |-> action.payload,
                 success |-> IF action.success THEN 1 ELSE 0,
                 error_message |-> action.errorMessage]
  IN IF log = <<>> THEN <<record>> ELSE [log EXCEPT ![Len(log)] = record]

\* TodoService.logAction: INSERT INTO tool_actions; the new row takes the
\* next id. payload is the arguments as JSON.stringify writes them, and ""
\* stands for the NULL that an absent errorMessage is stored as
logAction(log, action) ==
  Append(log, [action_type |-> action.actionType, todo_id |-> action.todoId,
               payload |-> action.payload,
               success |-> IF action.success THEN 1 ELSE 0,
               error_message |-> action.errorMessage])

LogTodoIds == 1..MaxLogTodos

\* the arguments of todo_create in the logging specification
LogCreateInputs ==
  [project_id : {NULL} \cup ProjectIds, parent_id : {NULL} \cup LogTodoIds,
   milestone_id : {NULL}, priority : {NULL}]

\* how a write of logAction ends: DbWrapper.run steps the INSERT and then
\* saves; in file mode the save is a writeFileSync of the whole database,
\* which can throw after the row is in the table
LogWrites == {"written", "save_failed"}

\* the log writes of a handler on a store whose saves do not fail: the
\* in-memory store of createTestDb, or a file that can be written
NoWriteFailure == <<"written", "written">>

\* a tool handler: the service call with outcome o in its try block, then
\* logAction(ok) with success: true; a throw of either lands in the catch
\* block, which calls logAction(err) with success: false and the error's
\* message and returns isError. w[1] and w[2] say how the first and the
\* second log write of the call end; a throw of logAction in the catch block
\* leaves the handler
ToolCall(op, o, ok, err, w) ==
  LET first == IF o.code = "OK"
               THEN ok @@ [success |-> TRUE, errorMessage |-> ""]
               ELSE err @@ [success |-> FALSE, errorMessage |-> o.code]
      second == err @@ [success |-> FALSE, errorMessage |-> "WRITE_FAILED"]
      afterFirst == logAction(tool_actions, first)
  IN /\ Len(tool_actions) < MaxLog
     /\ todos' = o.todos
     /\ seq' = [seq EXCEPT !.todos = o.seq]
     /\ UNCHANGED <<projects, milestones, processVars>>
     /\ IF w[1] = "written"
        THEN /\ tool_actions' = afterFirst
             /\ result' = Res(op, o.code, o.value)
        ELSE IF o.code # "OK"
        THEN /\ tool_actions' = afterFirst
             /\ result' = Res(op, "UNHANDLED_WRITE_FAILED", NULL)
        ELSE /\ tool_actions' = logAction(afterFirst, second)
             /\ result' = Res(op, IF w[2] = "written" THEN "WRITE_FAILED"
                                  ELSE "UNHANDLED_WRITE_FAILED", NULL)

todo_create(params, w) ==
  \E o \in {createOutcome(todos, seq.todos, params)} :
    ToolCall("todo_create", o,
             [actionType |-> "create", todoId |-> IF o.code = "OK" THEN o.value.id ELSE NULL,
              payload |-> params],
             [actionType |-> "create", todoId |-> NULL, payload |-> params], w)

todo_modify(id, data, w) ==
  \E o \in {updateOutcome(todos, seq.todos, id, data)} :
    \E a \in {[actionType |-> "modify", todoId |-> id, payload |-> ("id" :> id) @@ data]} :
      ToolCall("todo_modify", o, a, a, w)

\* todo_delete: getById, then delete
todo_delete(id, w) ==
  \E o \in {deleteOutcome(todos, seq.todos, id)} :
    \E a \in {[actionType |-> "delete", todoId |-> id, payload |-> [id |-> id]]} :
      ToolCall("todo_delete", o, a, a, w)

todo_complete(id, undo, w) ==
  \E o \in {updateOutcome(todos, seq.todos, id,
                          "status" :> (IF undo THEN "pending" ELSE "completed"))} :
    \E a \in {[actionType |-> "complete", todoId |-> id,
               payload |-> [id |-> id, undo |-> undo]]} :
      ToolCall("todo_complete", o, a, a, w)

\* todo_breakdown with n subtasks: getById(parent_id); under a subtask it
\* returns its isError text with no logAction; otherwise createMany of the
\* n items, each with the parent's id and project_id
todo_breakdown(parent_id, n, w) ==
  IF parent_id \in DOMAIN todos /\ todos[parent_id].level = "subtask"
  THEN ReadStep("todo_breakdown", [code |-> "IS_ERROR", value |-> NULL])
  ELSE \E o \in {IF parent_id \notin DOMAIN todos
                 THEN TodoOutcome("TODO_NOT_FOUND", todos, seq.todos, NULL)
                 ELSE createManyOutcome(todos, seq.todos,
                        [k \in 1..n |->
                           [project_id |-> todos[parent_id].project_id,
                            parent_id |-> parent_id,
                            milestone_id |-> NULL, priority |-> NULL]], 1)} :
         ToolCall("todo_breakdown", o,
                  [actionType |-> "create", todoId |-> parent_id,
                   payload |-> [parent_id |-> parent_id,
                                subtask_count |-> IF o.code = "OK" THEN Len(o.value) ELSE 0]],
                  [actionType |-> "create", todoId |-> parent_id,
                   payload |-> [parent_id |-> parent_id]], w)

\* ------------------------------------------------------------ interleaved callers
\* TodoService has no transaction around the statements of a call: here two
\* callers work on one store, and a step is one statement of one call

\* a faulty variant: the UPDATE of a missing row inserts it
updateRowsUpsert(tds, id, data) ==
  LET old == IF id \in DOMAIN tds THEN tds[id]
             ELSE [status |-> "pending", priority |-> 3, project_id |-> NULL,
                   parent_id |-> NULL, milestone_id |-> NULL, level |-> "task"]
      row == applyFields(old, data)
  IN IF ~todoRowOk(tds, row)
     THEN [code |-> "SQLITE_CONSTRAINT", todos |-> tds, changes |-> 0]
     ELSE [code |-> "OK", todos |-> (id :> row) @@ tds, changes |-> 1]

\* the statement UPDATE todos SET ... WHERE id = ?: the table it leaves and
\* the number of rows it changed
updateRows(tds, id, data) ==
  IF id \notin DOMAIN tds THEN [code |-> "OK", todos |-> tds, changes |-> 0]
  ELSE LET row == applyFields(tds[id], data)
       IN IF ~todoRowOk(tds, row)
          THEN [code |-> "SQLITE_CONSTRAINT", todos |-> tds, changes |-> 0]
          ELSE [code |-> "OK", todos |-> [tds EXCEPT ![id] = row], changes |-> 1]

\* the statement DELETE FROM todos WHERE id = ?, with its cascade
deleteRows(tds, id) ==
  [code |-> "OK",
   todos |-> Restrict(tds, DOMAIN tds \ cascadeTodos(tds, {id})),
   changes |-> IF id \in DOMAIN tds THEN 1 ELSE 0]

UpdateOps == {"update", "updateStatus"}

\* the call of caller c ends at statement `at`, returning or throwing
Finish(c, at, code, value) ==
  /\ calls' = [calls EXCEPT ![c].pc = "done", ![c].at = at, ![c].code = code]
  /\ result' = Res(calls[c].op, code, value)

\* the first statement of update and of delete: this.getById(id)
startCall(c, op, id, data) ==
  /\ calls[c].pc \in {"idle", "done"}
  /\ LET r == getTodoById(todos, id)
         call == [Idle EXCEPT !.op = op, !.id = id, !.data = data]
     IN IF r.code # "OK"
        THEN /\ calls' = [calls EXCEPT ![c] = [call EXCEPT !.pc = "done", !.at = "check",
                                                         !.code = r.code]]
             /\ result' = Res(op, r.code, NULL)
        ELSE /\ calls' = [calls EXCEPT ![c] = [call EXCEPT !.pc = "write"]]
             /\ UNCHANGED result
  /\ UNCHANGED <<projects, milestones, todos, seq, tool_actions, peer, file>>

\* the second statement of update: the UPDATE
updateStatement(c) ==
  /\ calls[c].pc = "write"
  /\ calls[c].op \in UpdateOps
  /\ \E o \in {updateRows(todos, calls[c].id, calls[c].data)} :
       /\ todos' = o.todos
       /\ IF o.code # "OK"
          THEN Finish(c, "write", o.code, NULL)
          ELSE /\ calls' = [calls EXCEPT ![c].pc = "refetch", ![c].changes = o.changes]
               /\ UNCHANGED result
  /\ UNCHANGED <<projects, milestones, seq, tool_actions, peer, file>>

\* the last statement of update: return this.getById(id)
refetchStatement(c) ==
  /\ calls[c].pc = "refetch"
  /\ \E r \in {getTodoById(todos, calls[c].id)} : Finish(c, "refetch", r.code, r.value)
  /\ UNCHANGED <<projects, milestones, todos, seq, tool_actions, peer, file>>

\* the second statement of delete: the DELETE, and the success record
deleteStatement(c) ==
  /\ calls[c].pc = "write"
  /\ calls[c].op = "delete"
  /\ \E o \in {deleteRows(todos, calls[c].id)} :
       /\ todos' = o.todos
       /\ calls' = [calls EXCEPT ![c].pc = "done", ![c].at = "write", ![c].code = "OK",
                                 ![c].changes = o.changes]
       /\ result' = Res("delete", "OK", [success |-> TRUE, id |-> calls[c].id])
  /\ UNCHANGED <<projects, milestones, seq, tool_actions, peer, file>>

\* the patches of the interleaved updates
ConcUpdateInputs == {<<>>, "priority" :> 6, "parent_id" :> 1}

ConcNext ==
  \/ \E data \in BatchItemsOver(TodoIds) : create(data) /\ seq'.todos <= MaxTodos
  \/ \E c \in Callers, id \in TodoIds, data \in ConcUpdateInputs : startCall(c, "update", id, data)
  \/ \E c \in Callers, id \in TodoIds, st \in TodoStatus :
       startCall(c, "updateStatus", id, "status" :> st)
  \/ \E c \in Callers, id \in TodoIds : startCall(c, "delete", id, <<>>)
  \/ \E c \in Callers : updateStatement(c)
  \/ \E c \in Callers : refetchStatement(c)
  \/ \E c \in Callers : deleteStatement(c)

ConcSpec == Init /\ [][ConcNext]_vars

\* ------------------------------------------------------------ two processes, one file
\* getDb reads the file once into an in-memory database; DbWrapper.run ends
\* with _save, which writes the whole in-memory database over the file. The
\* store of this module is the first process (stdio mode), peer the second
\* (HTTP mode)

\* the in-memory database of the first process
DbImage ==
  [projects |-> projects, milestones |-> milestones, todos |-> todos, seq |-> seq,
   tool_actions |-> tool_actions]

\* the patches the two processes send
FileUpdateInputs ==
  {"status" :> "completed", "priority" :> 1, "priority" :> 6, "parent_id" :> 1}

\* a TodoService call of the first process on a file database: its run
\* statements save, a call that throws before or in its statement does not
savedCall(op, o) ==
  /\ TodoEffect(op, o)
  /\ file' = IF o.code = "OK"
             THEN [DbImage EXCEPT !.todos = o.todos, !.seq.todos = o.seq]
             ELSE file
  /\ UNCHANGED <<tool_actions, calls, peer>>

\* getDb in the second process: new Database(readFileSync(p))
openPeer ==
  /\ ~peer.open
  /\ peer' = [open |-> TRUE, db |-> file]
  /\ result' = Res("getDb", "OK", NULL)
  /\ UNCHANGED <<projects, milestones, todos, seq, tool_actions, calls, file>>

\* a TodoService call of the second process, on its own in-memory database
peerCall(op, o) ==
  /\ peer.open
  /\ peer' = [peer EXCEPT !.db.todos = o.todos, !.db.seq.todos = o.seq]
  /\ file' = IF o.code = "OK"
             THEN [peer.db EXCEPT !.todos = o.todos, !.seq.todos = o.seq]
             ELSE file
  /\ result' = Res(op, o.code, o.value)
  /\ UNCHANGED <<projects, milestones, todos, seq, tool_actions, calls>>

FileNext ==
  \/ openPeer
  \/ \E data \in BatchItemsOver(TodoIds) :
       \E o \in {createOutcome(todos, seq.todos, data)} :
         o.seq <= MaxTodos /\ savedCall("create", o)
  \/ \E id \in TodoIds, data \in FileUpdateInputs :
       \E o \in {updateOutcome(todos, seq.todos, id, data)} : savedCall("update", o)
  \/ \E id \in TodoIds : \E o \in {deleteOutcome(todos, seq.todos, id)} : savedCall("delete", o)
  \/ \E data \in BatchItemsOver(TodoIds) :
       \E o \in {createOutcome(peer.db.todos, peer.db.seq.todos, data)} :
         o.seq <= MaxTodos /\ peerCall("create", o)
  \/ \E id \in TodoIds, data \in FileUpdateInputs :
       \E o \in {updateOutcome(peer.db.todos, peer.db.seq.todos, id, data)} :
         peerCall("update", o)
  \/ \E id \in TodoIds :
       \E o \in {deleteOutcome(peer.db.todos, peer.db.seq.todos, id)} : peerCall("delete", o)

FileSpec == Init /\ [][FileNext]_vars

\* ------------------------------------------------------------ specifications
ProjectNext ==
  \/ createProject
  \/ \E id \in ProjectIds, data \in ProjectUpdateInputs : updateProject(id, data)
  \/ \E id \in ProjectIds : deleteProject(id)
  \/ \E id \in ProjectIds : getProject(id)
  \/ \E id \in ProjectIds : createMilestone(id)
  \/ \E id \in MilestoneIds, undo \in BOOLEAN : completeMilestone(id, undo)
  \/ \E id \in MilestoneIds : deleteMilestone(id)
  \/ \E id \in MilestoneIds : getMilestone(id)
  \/ \E id \in ProjectIds : listMilestones(id)

\* the TodoService calls that write, update apart, over the ids and with at
\* most max todos ever created
TodoWrites(ids, inputs, batches, max) ==
  \/ \E data \in inputs : create(data) /\ seq'.todos <= max
  \/ \E items \in batches : createMany(items) /\ seq'.todos <= max
  \/ \E id \in ids, status \in TodoStatus : updateStatus(id, status)
  \/ \E id \in ids : delete(id)

\* every operation of the two services, update with any field of TodoUpdateInput
Next ==
  \/ ProjectNext
  \/ TodoWrites(TodoIds, TodoCreateInputs, Batches, MaxTodos)
  \/ \E id \in TodoIds, data \in TodoUpdateInputs : update(id, data)
  \/ \E id \in TodoIds : getById(id)

Spec == Init /\ [][Next]_vars

\* the writes the MCP tools reach, update with the fields of todo_modify
\* only, and the ProjectService calls
ToolNext ==
  \/ ProjectNext
  \/ TodoWrites(ToolTodoIds, ToolCreateInputs, ToolBatches, MaxToolTodos)
  \/ \E id \in ToolTodoIds, data \in ToolUpdateInputs : update(id, data)

ToolSpec == Init /\ [][ToolNext]_vars

\* the MCP tools, each call leaving its record in tool_actions, next to the
\* deletions that REST callers make without the tools
LogNext ==
  \/ \E params \in LogCreateInputs :
       todo_create(params, NoWriteFailure) /\ seq'.todos <= MaxLogTodos
  \/ \E id \in LogTodoIds, data \in ToolUpdateInputs : todo_modify(id, data, NoWriteFailure)
  \/ \E id \in LogTodoIds : todo_delete(id, NoWriteFailure)
  \/ \E id \in LogTodoIds, undo \in BOOLEAN : todo_complete(id, undo, NoWriteFailure)
  \/ \E id \in LogTodoIds, n \in 1..MaxBatch :
       todo_breakdown(id, n, NoWriteFailure) /\ seq'.todos <= MaxLogTodos
  \/ \E id \in LogTodoIds : delete(id)
  \/ createProject
  \/ \E id \in ProjectIds : deleteProject(id)
  \/ \E id \in ProjectIds : createMilestone(id)
  \/ \E id \in MilestoneIds : deleteMilestone(id)

LogSpec == Init /\ [][LogNext]_vars

\* the MCP tools on a database file whose saves can fail
LogFailNext ==
  \E w \in LogWrites \X LogWrites :
    \/ \E params \in LogCreateInputs : todo_create(params, w) /\ seq'.todos <= MaxLogTodos
    \/ \E id \in LogTodoIds : todo_modify(id, <<>>, w)
    \/ \E id \in LogTodoIds : todo_delete(id, w)
    \/ \E id \in LogTodoIds, undo \in BOOLEAN : todo_complete(id, undo, w)
    \/ \E id \in LogTodoIds : todo_breakdown(id, 1, w) /\ seq'.todos <= MaxLogTodos

LogFailSpec == Init /\ [][LogFailNext]_vars

\* the listings of TodoService, over the stores that the writes of both
\* services build
ListNext ==
  \/ createProject
  \/ \E id \in ProjectIds : deleteProject(id)
  \/ \E id \in ProjectIds : getProject(id)
  \/ \E data \in TodoCreateInputs : create(data) /\ seq'.todos <= MaxTodos
  \/ \E id \in TodoIds, data \in TodoUpdateInputs : update(id, data)
  \/ \E id \in TodoIds : delete(id)
  \/ \E options \in GetAllOptions : listTodos(options)
  \/ \E id \in ProjectIds : listProjectTree(id)

ListSpec == Init /\ [][ListNext]_vars

\* reparenting: create, update of parent_id and delete over a deeper table
TreeNext ==
  \/ \E data \in TreeCreateInputs : create(data) /\ seq'.todos <= MaxTreeTodos
  \/ \E id \in TreeIds, data \in TreeUpdateInputs : update(id, data)
  \/ \E id \in TreeIds : delete(id)
  \/ \E id \in TreeIds : getById(id)

TreeSpec == Init /\ [][TreeNext]_vars

\* progress over larger tables: a store holding one project, one milestone of
\* it and n todos of both, c of them completed, as n creates and c
\* updateStatus calls leave it
ProgressInit ==
  \E n \in 0..MaxProgressTodos : \E c \in 0..n :
    /\ projects = (1 :> [status |-> "active"])
    /\ milestones = (1 :> [project_id |-> 1, status |-> "pending"])
    /\ todos = [t \in 1..n |->
                  [status |-> IF t <= c THEN "completed" ELSE "pending",
                   priority |-> 3, project_id |-> 1, parent_id |-> NULL,
                   milestone_id |-> 1, level |-> "task"]]
    /\ seq = [projects |-> 1, milestones |-> 1, todos |-> n]
    /\ tool_actions = <<>>
    /\ result = Res("init", "OK", NULL)
    /\ ProcessInit

ProgressNext ==
  \/ getProject(1)
  \/ getMilestone(1)
  \/ listMilestones(1)

ProgressSpec == ProgressInit /\ [][ProgressNext]_vars

\* progress of a long-running project: the same store with about MaxLargeTodos
\* todos, all but a few of them completed
LargeProgressInit ==
  \E n \in (MaxLargeTodos - LargeSpread)..MaxLargeTodos : \E c \in (n - LargePending)..n :
    /\ projects = (1 :> [status |-> "active"])
    /\ milestones = (1 :> [project_id |-> 1, status |-> "pending"])
    /\ todos = [t \in 1..n |->
                  [status |-> IF t <= c THEN "completed" ELSE "pending",
                   priority |-> 3, project_id |-> 1, parent_id |-> NULL,
                   milestone_id |-> 1, level |-> "task"]]
    /\ seq = [projects |-> 1, milestones |-> 1, todos |-> n]
    /\ tool_actions = <<>>
    /\ result = Res("init", "OK", NULL)
    /\ ProcessInit

LargeProgressSpec == LargeProgressInit /\ [][ProgressNext]_vars

\* the end-to-end scenario: project 1, one task of it, subtasks of the
\* task, completions, deletions and the project's progress
ScenarioIds == 1..MaxScenarioTodos

ScenarioNext ==
  \/ createProject
  \/ /\ seq.todos = 0
     /\ create([project_id |-> 1, parent_id |-> NULL, milestone_id |-> NULL, priority |-> NULL])
  \/ /\ seq.todos \in 1..(MaxScenarioTodos - 1)
     /\ create([project_id |-> NULL, parent_id |-> 1, milestone_id |-> NULL, priority |-> NULL])
  \/ \E id \in ScenarioIds, status \in TodoStatus : updateStatus(id, status)
  \/ \E id \in ScenarioIds : delete(id)
  \/ getProject(1)

ScenarioSpec == Init /\ [][ScenarioNext]_vars

\* ------------------------------------------------------------ claims
\* C1: create with parent_id naming an existing todo of level task returns a
\* todo of level subtask whose parent_id is that todo and whose project_id is
\* the parent's (NULL when the parent has none), whatever project_id the
\* input carries; it succeeds whenever the milestone and priority are valid.
C1_SubtaskInheritsParentProject ==
  [][\A data \in TodoCreateInputs :
       (/\ result'.op = "create"
        /\ data.parent_id \in DOMAIN todos
        /\ todos[data.parent_id].level = "task"
        /\ create(data))
       => /\ (/\ data.priority \in {NULL} \cup (1..5)
              /\ data.milestone_id \in {NULL} \cup DOMAIN milestones) => result'.code = "OK"
          /\ result'.code = "OK" =>
               /\ result'.value.level = "subtask"
               /\ result'.value.parent_id = data.parent_id
               /\ result'.value.project_id = todos[data.parent_id].project_id
               /\ result'.value.id \notin DOMAIN todos
               /\ withId(result'.value.id, todos'[result'.value.id]) = result'.value
    ]_vars

\* a subtask was just created under a task that belongs to a project
C1_Witness ==
  /\ result.op = "create"
  /\ result.code = "OK"
  /\ result.value.parent_id # NULL
  /\ result.value.project_id # NULL
  /\ todos[result.value.parent_id].level = "task"
  /\ todos[result.value.parent_id].project_id = result.value.project_id

\* C2: create with parent_id naming an existing todo of level subtask fails
\* with MAX_DEPTH_EXCEEDED, inserts nothing and leaves the three tables as
\* they were.
C2_SubtaskParentRejected ==
  [][\A data \in TodoCreateInputs :
       (/\ result'.op = "create"
        /\ data.parent_id \in DOMAIN todos
        /\ todos[data.parent_id].level = "subtask"
        /\ create(data))
       => /\ result'.code = "MAX_DEPTH_EXCEEDED"
          /\ todos' = todos
          /\ projects' = projects
          /\ milestones' = milestones
          /\ seq' = seq
    ]_vars

\* a create was just rejected for depth while a subtask exists
C2_Witness ==
  /\ result.op = "create"
  /\ result.code = "MAX_DEPTH_EXCEEDED"
  /\ \E t \in DOMAIN todos : todos[t].level = "subtask"

\* C3: every stored todo has level subtask exactly when its parent_id is not
\* NULL (and level task exactly when it is NULL).
C3_LevelMatchesParent ==
  \A t \in DOMAIN todos : (todos[t].level = "subtask") <=> (todos[t].parent_id # NULL)

\* C4: through the operations the tools reach, no todo has a parent that has
\* a parent: every parent_id names a stored todo without a parent.
C4_DepthAtMostThree ==
  \A t \in DOMAIN todos :
    todos[t].parent_id # NULL =>
      /\ todos[t].parent_id \in DOMAIN todos
      /\ todos[todos[t].parent_id].parent_id = NULL

\* a subtask sits under a task and a create under the subtask was just rejected
C4_Witness ==
  /\ result.op = "create"
  /\ result.code = "MAX_DEPTH_EXCEEDED"
  /\ \E t \in DOMAIN todos : todos[t].parent_id # NULL

\* C5: every subtask's project_id equals that of its parent todo.
C5_SubtaskProjectEqualsParents ==
  \A t \in DOMAIN todos :
    (todos[t].level = "subtask" /\ todos[t].parent_id \in DOMAIN todos)
      => todos[t].project_id = todos[todos[t].parent_id].project_id

\* C6: delete of an existing task t removes t and the todos whose parent_id
\* is t, removes no other todo, and afterwards getById and the listings
\* return none of those removed.
C6_DeleteRemovesTaskAndChildrenOnly ==
  [][\A id \in TreeIds :
       (/\ result'.op = "delete"
        /\ id \in DOMAIN todos
        /\ todos[id].level = "task"
        /\ delete(id))
       => LET removed == {id} \cup {c \in DOMAIN todos : todos[c].parent_id = id}
          IN /\ result'.code = "OK"
             /\ DOMAIN todos' = DOMAIN todos \ removed
             /\ \A t \in DOMAIN todos' : todos'[t] = todos[t]
             /\ \A r \in removed :
                  /\ getTodoById(todos', r).code = "TODO_NOT_FOUND"
                  /\ r \notin getAll(todos', <<>>).todos
                  /\ r \notin getStandalone(todos', <<>>)
    ]_vars

\* C7: delete of an existing project P removes P and the milestones of P,
\* deletes no todo, and leaves every todo that referenced P with project_id
\* NULL and its parent_id, status and level as they were.
C7_DeleteProjectDetachesTodos ==
  [][\A id \in ProjectIds :
       (result'.op = "deleteProject" /\ id \in DOMAIN projects /\ deleteProject(id))
       => /\ result'.code = "OK"
          /\ projects' = Restrict(projects, DOMAIN projects \ {id})
          /\ milestones' = Restrict(milestones, {m \in DOMAIN milestones : milestones[m].project_id # id})
          /\ DOMAIN todos' = DOMAIN todos
          /\ \A t \in DOMAIN todos :
               /\ todos[t].project_id = id => todos'[t].project_id = NULL
               /\ todos[t].project_id # id => todos'[t].project_id = todos[t].project_id
               /\ todos'[t].parent_id = todos[t].parent_id
               /\ todos'[t].status = todos[t].status
               /\ todos'[t].level = todos[t].level
    ]_vars

\* a project was just deleted, one of its milestones is gone with it, and a
\* subtask is still stored under its parent with no project
C7_Witness ==
  /\ result.op = "deleteProject"
  /\ result.code = "OK"
  /\ seq.milestones > 0
  /\ milestones = <<>>
  /\ \E t \in DOMAIN todos :
       /\ todos[t].level = "subtask"
       /\ todos[t].parent_id \in DOMAIN todos
       /\ todos[t].project_id = NULL

\* C8: deleteMilestone of an existing milestone m removes that milestone
\* alone, deletes no todo, sets milestone_id to NULL on the todos that
\* referenced m and changes nothing else.
C8_DeleteMilestoneDetachesTodos ==
  [][\A id \in MilestoneIds :
       (result'.op = "deleteMilestone" /\ id \in DOMAIN milestones /\ deleteMilestone(id))
       => /\ result'.code = "OK"
          /\ milestones' = Restrict(milestones, DOMAIN milestones \ {id})
          /\ projects' = projects
          /\ seq' = seq
          /\ DOMAIN todos' = DOMAIN todos
          /\ \A t \in DOMAIN todos :
               todos'[t] = IF todos[t].milestone_id = id
                           THEN [todos[t] EXCEPT !.milestone_id = NULL]
                           ELSE todos[t]
    ]_vars

\* a milestone was just deleted and a todo of its project is still stored,
\* with no milestone
C8_Witness ==
  /\ result.op = "deleteMilestone"
  /\ result.code = "OK"
  /\ seq.milestones > 0
  /\ milestones = <<>>
  /\ \E t \in DOMAIN todos : todos[t].milestone_id = NULL /\ todos[t].project_id # NULL

\* completed * 100 / total rounded to the nearest integer, a half going up
RoundHalfUp(completed, total) == (200 * completed + total) \div (2 * total)

\* C9: the progress a project call reports has total_tasks the number of
\* todos of the project, completed_tasks the number of those completed, and
\* progress_percent the round-half-up of completed * 100 / total (0 when
\* there are none).
C9_ProjectProgressExact ==
  (result.op \in {"getProject", "createProject", "updateProject"} /\ result.code = "OK") =>
    LET id == result.value.id
        total == Cardinality({t \in DOMAIN todos : todos[t].project_id = id})
        completed == Cardinality({t \in DOMAIN todos :
                                    todos[t].project_id = id /\ todos[t].status = "completed"})
    IN /\ result.value.total_tasks = total
       /\ result.value.completed_tasks = completed
       /\ result.value.progress_percent = IF total > 0 THEN RoundHalfUp(completed, total) ELSE 0

\* C10: the progress getMilestoneById and getMilestones report for a
\* milestone counts the todos whose milestone_id is that milestone, whatever
\* their project_id or level, and its percent is the round-half-up of
\* completed * 100 / total (0 when there are none).
C10_MilestoneProgressExact ==
  /\ (result.op \in {"getMilestoneById", "createMilestone", "completeMilestone"}
        /\ result.code = "OK") =>
       LET id == result.value.id
           linked == {t \in DOMAIN todos : todos[t].milestone_id = id}
           done == {t \in linked : todos[t].status = "completed"}
       IN /\ result.value.total_tasks = Cardinality(linked)
          /\ result.value.completed_tasks = Cardinality(done)
          /\ result.value.progress_percent =
               IF linked # {} THEN RoundHalfUp(Cardinality(done), Cardinality(linked)) ELSE 0
  /\ (result.op = "getMilestones" /\ result.code = "OK") =>
       \A id \in DOMAIN result.value :
         LET linked == {t \in DOMAIN todos : todos[t].milestone_id = id}
             done == {t \in linked : todos[t].status = "completed"}
         IN /\ result.value[id].total_tasks = Cardinality(linked)
            /\ result.value[id].completed_tasks = Cardinality(done)
            /\ result.value[id].progress_percent =
                 IF linked # {} THEN RoundHalfUp(Cardinality(done), Cardinality(linked)) ELSE 0

\* C11: ProjectService.getById, getMilestoneById and TodoService.getById on
\* an id that is not in the store, never created or deleted since, fail with
\* the NotFound error of status 404 and return nothing; the store is as it was.
C11_GetMissingIdFailsNotFound ==
  [][/\ \A id \in TodoIds :
          (result'.op = "getById" /\ id \notin DOMAIN todos /\ getById(id))
          => /\ result'.code = "TODO_NOT_FOUND"
             /\ statusCode(result'.code) = 404
             /\ result'.value = NULL
             /\ UNCHANGED <<projects, milestones, todos, seq>>
     /\ \A id \in ProjectIds :
          (result'.op = "getProject" /\ id \notin DOMAIN projects /\ getProject(id))
          => /\ result'.code = "PROJECT_NOT_FOUND"
             /\ statusCode(result'.code) = 404
             /\ result'.value = NULL
             /\ UNCHANGED <<projects, milestones, todos, seq>>
     /\ \A id \in MilestoneIds :
          (result'.op = "getMilestoneById" /\ id \notin DOMAIN milestones /\ getMilestone(id))
          => /\ result'.code = "MILESTONE_NOT_FOUND"
             /\ statusCode(result'.code) = 404
             /\ result'.value = NULL
             /\ UNCHANGED <<projects, milestones, todos, seq>>
    ]_vars

\* getById was just refused on the id of a todo that was created and deleted
\* while another todo is stored
C11_Witness ==
  /\ result.op = "getById"
  /\ result.code = "TODO_NOT_FOUND"
  /\ todos # <<>>
  /\ \E id \in 1..seq.todos : id \notin DOMAIN todos

\* the store the scenario builds: project 1 holds the pending task 1 and
\* every other todo is a subtask of task 1
ScenarioShape ==
  /\ 1 \in DOMAIN projects
  /\ 1 \in DOMAIN todos
  /\ todos[1].project_id = 1
  /\ todos[1].parent_id = NULL
  /\ todos[1].status = "pending"
  /\ \A t \in DOMAIN todos \ {1} : todos[t].parent_id = 1

\* C12: with project P, task T of P and n subtasks of T of which k are
\* completed, P's progress is total n + 1 and completed k (percent 33 for
\* n = 2, k = 1); deleting T then leaves no todo, P still exists and its
\* progress is 0 of 0, 0 percent.
C12_ScenarioProgress ==
  [][/\ (result'.op = "getProject" /\ ScenarioShape /\ getProject(1))
          => LET n == Cardinality(DOMAIN todos \ {1})
                 k == Cardinality({t \in DOMAIN todos \ {1} : todos[t].status = "completed"})
             IN /\ result'.code = "OK"
                /\ result'.value.total_tasks = n + 1
                /\ result'.value.completed_tasks = k
                /\ (n = 2 /\ k = 1) => result'.value.progress_percent = 33
     /\ (result'.op = "delete" /\ ScenarioShape /\ delete(1))
          => /\ result'.code = "OK"
             /\ todos' = <<>>
             /\ projects' = projects
             /\ getProjectById(projects', todos', 1) =
                  [code |-> "OK",
                   value |-> [id |-> 1, status |-> projects[1].status, total_tasks |-> 0,
                              completed_tasks |-> 0, progress_percent |-> 0]]
    ]_vars

\* the project's progress was just read as 1 of 3, 33 percent, with the task
\* and two subtasks stored
C12_Witness ==
  /\ result.op = "getProject"
  /\ result.code = "OK"
  /\ ScenarioShape
  /\ Cardinality(DOMAIN todos) = 3
  /\ result.value.total_tasks = 3
  /\ result.value.completed_tasks = 1
  /\ result.value.progress_percent = 33

\* C13: createMany creates the items in the given order; when item j + 1 is
\* the first whose create fails, the todos of items 1..j stay stored, none is
\* created for a later item and the error is that of item j + 1; when no
\* item fails the created records are returned in input order.
C13_CreateManyPartial ==
  [][\A items \in Batches :
       (result'.op = "createMany" /\ createMany(items))
       => LET n == seq.todos
              j == seq'.todos - n
          IN /\ j \in 0..Len(items)
             /\ DOMAIN todos' = DOMAIN todos \cup ((n + 1)..(n + j))
             /\ \A t \in DOMAIN todos : todos'[t] = todos[t]
             /\ \A i \in 1..j :
                  /\ todos'[n + i].parent_id = items[i].parent_id
                  /\ todos'[n + i].level = levelOf(items[i].parent_id)
             /\ UNCHANGED <<projects, milestones>>
             /\ IF result'.code = "OK"
                THEN /\ j = Len(items)
                     /\ result'.value = [i \in 1..j |-> withId(n + i, todos'[n + i])]
                ELSE /\ j < Len(items)
                     /\ createOutcome(todos', n + j, items[j + 1]).code = result'.code
    ]_vars

\* a batch just failed on a missing parent while the store holds the one
\* todo that its first item creates
C13_Witness ==
  /\ result.op = "createMany"
  /\ result.code = "TODO_NOT_FOUND"
  /\ seq.todos = 1
  /\ DOMAIN todos = {1}

\* C14: completeMilestone on an existing milestone succeeds, sets its status
\* to reached (pending when undo) and touches nothing else; the same call
\* made again succeeds, returns the same record and leaves the store as the
\* first call left it.
C14_CompleteMilestoneIdempotent ==
  [][\A id \in MilestoneIds, undo \in BOOLEAN :
       (result'.op = "completeMilestone" /\ id \in DOMAIN milestones /\ completeMilestone(id, undo))
       => /\ result'.code = "OK"
          /\ result'.value.status = (IF undo THEN "pending" ELSE "reached")
          /\ milestones' = [milestones EXCEPT ![id].status = result'.value.status]
          /\ UNCHANGED <<projects, todos, seq, tool_actions>>
          /\ id \in DOMAIN milestones'
          /\ completeMilestoneRows(milestones', id, undo) = milestones'
          /\ getMilestoneById(milestones', todos', id) = [code |-> "OK", value |-> result'.value]
    ]_vars

\* completeMilestone just returned a reached milestone that a todo is linked to
C14_Witness ==
  /\ result.op = "completeMilestone"
  /\ result.code = "OK"
  /\ result.value.status = "reached"
  /\ milestones[result.value.id].status = "reached"
  /\ \E t \in DOMAIN todos : todos[t].milestone_id = result.value.id

\* C15: a milestone is created pending, its status is always pending or
\* reached, and it changes only in a successful completeMilestone on that
\* milestone: no todo operation changes it, whatever the status of the todos
\* linked to it.
C15_MilestoneStatusExplicit ==
  [][/\ \A m \in DOMAIN milestones' : milestones'[m].status \in MilestoneStatus
     /\ \A m \in DOMAIN milestones' \ DOMAIN milestones :
          /\ milestones'[m].status = "pending"
          /\ result'.op = "createMilestone"
     /\ \A m \in DOMAIN milestones' \cap DOMAIN milestones :
          milestones'[m].status # milestones[m].status
            => /\ result'.op = "completeMilestone"
               /\ result'.code = "OK"
               /\ result'.value.id = m
     /\ result'.op \in {"create", "createMany", "update", "updateStatus", "delete", "getById"}
          => milestones' = milestones
    ]_vars

\* updateStatus just completed the last open todo linked to a milestone, and
\* the milestone is still pending
C15_Witness ==
  /\ result.op = "updateStatus"
  /\ result.code = "OK"
  /\ result.value.status = "completed"
  /\ result.value.milestone_id \in DOMAIN milestones
  /\ milestones[result.value.milestone_id].status = "pending"
  /\ \A t \in DOMAIN todos :
       todos[t].milestone_id = result.value.milestone_id => todos[t].status = "completed"

C17_StandaloneAfterProjectDelete ==
  [][/\ \A options \in StandaloneOptions :
          /\ getStandalone(todos', options) \subseteq DOMAIN todos'
          /\ \A t \in DOMAIN todos' :
               t \in getStandalone(todos', options)
                 <=> /\ todos'[t].project_id = NULL
                     /\ todos'[t].parent_id = NULL
                     /\ options # <<>> => todos'[t].status = options.status
     /\ (result'.op = "deleteProject" /\ result'.code = "OK")
          => \A t \in DOMAIN todos :
               todos[t].project_id = result'.value.id
                 => /\ t \in DOMAIN todos'
                    /\ todos'[t].parent_id = todos[t].parent_id
                    /\ t \in getStandalone(todos', <<>>) <=> todos[t].parent_id = NULL
    ]_vars

\* a project was just deleted, and the store holds a todo without project and
\* parent together with a subtask of it that has no project either
C17_Witness ==
  /\ result.op = "deleteProject"
  /\ result.code = "OK"
  /\ \E t, u \in DOMAIN todos :
       /\ todos[t].project_id = NULL /\ todos[t].parent_id = NULL
       /\ todos[u].project_id = NULL /\ todos[u].parent_id = t
       /\ getStandalone(todos, <<>>) = {t}

\* C18: the tool action log only grows: no step makes tool_actions shorter,
\* and every record it held before the step is still there, at its id and
\* unchanged, also when the step deletes the todo, the project or the
\* milestone that the record names.
C18_ToolActionsAppendOnly ==
  [][/\ Len(tool_actions') >= Len(tool_actions)
     /\ \A i \in 1..Len(tool_actions) : tool_actions'[i] = tool_actions[i]
    ]_vars

\* the log holds the record of a successful call on a todo that a later
\* call deleted
C18_Witness ==
  /\ result.op \in {"delete", "todo_delete"}
  /\ result.code = "OK"
  /\ Len(tool_actions) >= 2
  /\ \E i \in 1..Len(tool_actions) :
       /\ tool_actions[i].action_type \in {"create", "modify", "complete"}
       /\ tool_actions[i].success = 1
       /\ tool_actions[i].todo_id # NULL
       /\ tool_actions[i].todo_id \notin DOMAIN todos

C20_MissingIdFailsBeforeWriting ==
  [][LET NotFoundNoWrite == /\ statusCode(result'.code) = 404
                            /\ UNCHANGED <<projects, milestones, todos, seq>>
     IN /\ \A id \in TodoIds \ DOMAIN todos :
             /\ result'.op = "update"
                  => \A data \in TodoUpdateInputs : update(id, data) => NotFoundNoWrite
             /\ result'.op = "updateStatus"
                  => \A status \in TodoStatus : updateStatus(id, status) => NotFoundNoWrite
             /\ result'.op = "delete" => (delete(id) => NotFoundNoWrite)
        /\ \A id \in ProjectIds \ DOMAIN projects :
             /\ result'.op = "updateProject"
                  => \A data \in ProjectUpdateInputs : updateProject(id, data) => NotFoundNoWrite
             /\ result'.op = "deleteProject" => (deleteProject(id) => NotFoundNoWrite)
             /\ result'.op = "getMilestones" => (listMilestones(id) => NotFoundNoWrite)
             /\ result'.op = "createMilestone" => (createMilestone(id) => NotFoundNoWrite)
        /\ \A id \in MilestoneIds \ DOMAIN milestones :
             /\ result'.op = "completeMilestone"
                  => \A undo \in BOOLEAN : completeMilestone(id, undo) => NotFoundNoWrite
             /\ result'.op = "deleteMilestone" => (deleteMilestone(id) => NotFoundNoWrite)
    ]_vars

\* delete of a missing todo just failed with NotFound on a store that holds
\* a project, a milestone and a todo
C20_Witness ==
  /\ result.op = "delete"
  /\ result.code = "TODO_NOT_FOUND"
  /\ todos # <<>>
  /\ projects # <<>>
  /\ milestones # <<>>

\* the foreign keys of todos and milestones all name rows that exist
ReferentialIntegrity ==
  /\ \A t \in DOMAIN todos :
       /\ todos[t].project_id # NULL => todos[t].project_id \in DOMAIN projects
       /\ todos[t].parent_id # NULL => todos[t].parent_id \in DOMAIN todos
       /\ todos[t].milestone_id # NULL => todos[t].milestone_id \in DOMAIN milestones
  /\ \A m \in DOMAIN milestones : milestones[m].project_id \in DOMAIN projects

\* C21 as amended: referential integrity holds in every reachable state, and
\* from each of them a create whose row would name a missing project (a
\* create without parent_id that names one) or a missing milestone fails and
\* inserts nothing.
C21_ReferentialIntegrity ==
  /\ ReferentialIntegrity
  /\ \A data \in TodoCreateInputs :
       LET o == createOutcome(todos, seq.todos, data)
       IN (\/ /\ data.parent_id = NULL
              /\ data.project_id # NULL
              /\ data.project_id \notin DOMAIN projects
           \/ /\ data.milestone_id # NULL
              /\ data.milestone_id \notin DOMAIN milestones)
          => /\ o.code # "OK"
             /\ o.todos = todos
             /\ o.seq = seq.todos

\* C21 as stated: every create that names a missing project fails, also one
\* that names a parent, whose project_id create takes in place of the caller's
C21_CreateNamingMissingProjectFails ==
  \A data \in TodoCreateInputs :
    (data.project_id # NULL /\ data.project_id \notin DOMAIN projects)
    => createOutcome(todos, seq.todos, data).code # "OK"

\* a create was just refused by a constraint, in a store whose one project
\* was deleted and which holds a todo
C21_Witness ==
  /\ result.op = "create"
  /\ result.code = "SQLITE_CONSTRAINT"
  /\ seq.projects = 1
  /\ projects = <<>>
  /\ todos # <<>>

\* C22: getAll returns exactly the todos that match every filter it is
\* given, status, project_id, parent_id and level, a null parent_id matching
\* the todos without parent and a filter left out matching all, and
\* totalCount is the number of todos returned.
C22_GetAllFiltersByAnd ==
  \A options \in GetAllOptions :
    LET r == getAll(todos, options)
    IN /\ r.todos = {t \in DOMAIN todos : \A k \in DOMAIN options : todos[t][k] = options[k]}
       /\ r.totalCount = Cardinality(r.todos)

\* getAll just returned one of the two stored todos
C22_Witness ==
  /\ result.op = "getAll"
  /\ result.code = "OK"
  /\ result.value.totalCount = 1
  /\ Cardinality(DOMAIN todos) = 2
  /\ \E t \in DOMAIN todos : todos[t].parent_id # NULL

\* priorities to try: below the range, its two ends, the default and above
PriorityProbes == {-1, 1, 3, 5, 6}

\* C23: every stored todo has a priority in 1..5 and a status of pending or
\* completed; from every reachable store a create without a priority stores
\* 3 and pending, a create or update with a priority in 1..5 stores it, and
\* one with a priority outside 1..5 fails and changes nothing. (A create
\* that names no parent, project or milestone has nothing else to fail on.)
C23_PriorityAndStatusInRange ==
  /\ \A t \in DOMAIN todos :
       /\ todos[t].priority \in 1..5
       /\ todos[t].status \in TodoStatus
  /\ \A data \in {d \in TodoCreateInputs : d.priority = NULL /\ d.milestone_id = NULL} :
       \A p \in {NULL} \cup PriorityProbes :
         LET o == createOutcome(todos, seq.todos, [data EXCEPT !.priority = p])
             stored == IF p = NULL THEN 3 ELSE p
         IN IF stored \in 1..5
            THEN /\ o.code = "OK" => o.value.priority = stored /\ o.value.status = "pending"
                 /\ (data.parent_id = NULL /\ data.project_id = NULL) => o.code = "OK"
            ELSE o.code # "OK" /\ o.todos = todos /\ o.seq = seq.todos
  /\ \A id \in DOMAIN todos, p \in PriorityProbes :
       LET o == updateOutcome(todos, seq.todos, id, "priority" :> p)
       IN IF p \in 1..5
          THEN o.code = "OK" /\ o.todos[id].priority = p
          ELSE o.code # "OK" /\ o.todos = todos

\* a create just stored the default priority 3 and pending, next to a todo
\* that is completed
C23_Witness ==
  /\ result.op = "create"
  /\ result.code = "OK"
  /\ result.value.priority = 3
  /\ result.value.status = "pending"
  /\ \E t \in DOMAIN todos : todos[t].status = "completed"

\* the tool a call of which result records
TodoTools == {"todo_create", "todo_modify", "todo_delete", "todo_complete", "todo_breakdown"}

\* C24: every call of a mutating todo tool, whether it succeeds or fails,
\* appends exactly one record to the tool action log, and the record's
\* success flag is 1 exactly when the call returned without isError.
C24_EveryToolCallLogsOnce ==
  [][result'.op \in TodoTools
       => /\ Len(tool_actions') = Len(tool_actions) + 1
          /\ tool_actions'[Len(tool_actions')].success = 1 <=> result'.code = "OK"
    ]_vars

\* C25: a log write that fails does not mask a mutation that succeeded:
\* when the core operation of a tool call has succeeded, which the record
\* with success 1 that the call puts in the log shows, the call reports
\* success, however its log writes end.
C25_LogFailureNeverMasksSuccess ==
  [][(/\ result'.op \in TodoTools
      /\ Len(tool_actions') > Len(tool_actions)
      /\ tool_actions'[Len(tool_actions) + 1].success = 1)
       => result'.code = "OK"
    ]_vars

\* C26: with two callers whose statements interleave on one store, an update
\* or updateStatus whose existence check passed and whose row is gone when
\* its UPDATE runs changes no row, leaves the row missing until its re-fetch,
\* and ends with TODO_NOT_FOUND at the re-fetch, never with a success record.
C26_UpdateOfDeletedRowFails ==
  [][\A c \in Callers :
       calls[c].op \in UpdateOps =>
         /\ (calls[c].pc = "write" /\ calls'[c].pc # "write"
               /\ calls[c].id \notin DOMAIN todos)
              => /\ todos' = todos
                 /\ calls'[c].pc = "refetch"
                 /\ calls'[c].changes = 0
         /\ (calls[c].pc = "refetch" /\ calls[c].changes = 0)
              => /\ calls[c].id \notin DOMAIN todos
                 /\ calls[c].id \notin DOMAIN todos'
         /\ (calls[c].pc = "refetch" /\ calls[c].changes = 0 /\ calls'[c].pc = "done")
              => /\ calls'[c].code = "TODO_NOT_FOUND"
                 /\ result' = Res(calls[c].op, "TODO_NOT_FOUND", NULL)]_vars

\* an update that passed its check, ran its UPDATE on no row after the other
\* caller's delete, and ended at the re-fetch, while a later create is stored
C26_Witness ==
  \E c \in Callers, d \in Callers :
    /\ c # d
    /\ calls[c].op \in UpdateOps
    /\ calls[c].pc = "done"
    /\ calls[c].at = "refetch"
    /\ calls[c].changes = 0
    /\ calls[c].code = "TODO_NOT_FOUND"
    /\ calls[d].op = "delete"
    /\ calls[d].pc = "done"
    /\ calls[d].changes = 1
    /\ calls[d].id = calls[c].id
    /\ DOMAIN todos # {}

\* C27: with two server processes opened on the same database file, no
\* committed mutation is lost: a create or an update committed by either
\* process leaves in the file every todo the file held before it. (The code
\* does not keep this: each process saves its own whole in-memory database.)
C27_NoCommittedMutationLost ==
  [][(result'.op \in {"create", "update"} /\ result'.code = "OK")
       => \A t \in DOMAIN file.todos :
            /\ t \in DOMAIN file'.todos
            /\ result'.value.id # t => file'.todos[t] = file.todos[t]]_vars

\* the todos a project tree shows: its top-level tasks and their subtasks
treeTodos(tree) == DOMAIN tree \cup UNION {tree[t] : t \in DOMAIN tree}

\* C28: for every project P in every reachable state, the todos in
\* getProjectTree(P) are exactly the todos with project_id = P, each shown
\* once: the tree lists the set of todos that P's total_tasks counts. (The
\* code does not keep this once update has moved a todo.)
C28_TreeListsTheProjectsTodos ==
  \A P \in DOMAIN projects :
    LET tree == getProjectTree(todos, P)
    IN /\ treeTodos(tree) = {t \in DOMAIN todos : todos[t].project_id = P}
       /\ Cardinality(treeTodos(tree)) = attachProgress(todos, P, projects[P]).total_tasks
       /\ \A a \in DOMAIN tree : tree[a] \cap DOMAIN tree = {}
       /\ \A a \in DOMAIN tree, b \in DOMAIN tree : a # b => tree[a] \cap tree[b] = {}

\* C29: for every project and milestone, the reported progress_percent is
\* 100 if and only if total_tasks > 0 and at least 99.5 percent of the linked
\* todos are completed (200 * completed_tasks >= 199 * total_tasks): it is 100
\* when all are completed, and with fewer than 200 linked todos only then.
C29_HundredFromHalfPercentBelow ==
  (result.op \in {"getProject", "getMilestoneById"} /\ result.code = "OK")
    => /\ result.value.progress_percent = 100
            <=> /\ result.value.total_tasks > 0
                /\ 200 * result.value.completed_tasks >= 199 * result.value.total_tasks
       /\ (result.value.total_tasks > 0
             /\ result.value.completed_tasks = result.value.total_tasks)
            => result.value.progress_percent = 100
       /\ (result.value.progress_percent = 100 /\ result.value.total_tasks < 200)
            => result.value.completed_tasks = result.value.total_tasks

\* a project or milestone read that reports 100 with one of its 200 todos
\* pending
C29_Witness ==
  /\ result.op \in {"getProject", "getMilestoneById"}
  /\ result.code = "OK"
  /\ result.value.total_tasks = 200
  /\ result.value.completed_tasks = 199
  /\ result.value.progress_percent = 100

\* C29 as first stated: 100 if and only if total_tasks > 0 and
\* completed_tasks = total_tasks; with a pending linked todo never 100.
C29_HundredOnlyWhenAllCompleted ==
  (result.op \in {"getProject", "getMilestoneById"} /\ result.code = "OK")
    => (result.value.progress_percent = 100
          <=> /\ result.value.total_tasks > 0
              /\ result.value.completed_tasks = result.value.total_tasks)

\* C30: in every reachable state, every todo with a non-null milestone_id has
\* the project_id of that milestone, so that a milestone's progress counts
\* only todos of the milestone's own project. (The code does not keep this:
\* neither create, update nor the schema compares the two.)
C30_MilestoneTodosShareItsProject ==
  \A t \in DOMAIN todos :
    todos[t].milestone_id # NULL
      => /\ todos[t].milestone_id \in DOMAIN milestones
         /\ todos[t].project_id = milestones[todos[t].milestone_id].project_id

====
